---- MODULE Spec2Model ----
(***************************************************************************)
(* The ingestion pipeline and the realtime fan-out hub of the multi-tenant *)
(* analytics API server (the Express application with the /track,          *)
(* /track/batch and /events/stream routes), the arithmetic of its report   *)
(* routes, and the batching buffer of the client SDK (class Analytics),    *)
(* as state machines over one set of variables.                            *)
(*                                                                         *)
(* One action is one run of the event loop: the resolution of an awaited   *)
(* promise (or the arrival of a request, a timer tick, a socket event)     *)
(* followed by the synchronous code up to the next await.                  *)
(***************************************************************************)
EXTENDS Integers, Sequences, FiniteSets, TLC

\* ------------------------------------------------------------------ bounds
MaxRequests == 3 \* HTTP requests in one run
MaxCalls == 2    \* ingestion requests (/track, /track/batch) among them
MaxConns == 2    \* /events/stream requests among them
MaxBatch == 2    \* longest events array of a /track/batch body
MaxBeats == 1    \* heartbeat messages written in one run
MaxDays == 2     \* calendar days a run spans
MaxBuckets == 3  \* longest list of counts the index answers a report with
MaxCount == 3    \* largest single count in such a list
MaxSteps == 3    \* longest list of event types of a funnel request
MaxEvents == 4   \* track() calls on one SDK instance
MaxFlushes == 3  \* flush() calls on one SDK instance, whoever makes them
BatchSize == 3   \* options.batchSize of the SDK instance (that of testSDK)

Calls == 1..MaxCalls
Streams == 1..MaxConns

\* ------------------------------------------------------------ input values
Undefined == "undefined"          \* a field absent from the JSON body
EventNames == {"signup"}
EventInputs == EventNames \cup {Undefined, ""}

\* rows of the tenants table: the seed data, one api_key per tenant
TenantsTable ==
  { [id |-> "tA", api_key |-> "key-A"], [id |-> "tB", api_key |-> "key-B"] }
Tenants == { t.id : t \in TenantsTable }
NoTenant == "none"
NoCredential == "none"
NoBody == [none |-> TRUE]

\* the x-api-key header (or api_key query parameter) of a request: absent,
\* matching no tenant, or a tenant's key
NoKeys == {"", "bad-key"}

\* the body of a /track request
TrackBodies == { [event |-> e] : e \in EventInputs }
\* The body of a /track/batch request. isArray: Array.isArray(events); length:
\* events.length. The handler reads the k-th element in the k-th turn of its
\* insert loop and nowhere else, so the element is drawn in that turn.
BatchBodies ==
  { [isArray |-> FALSE, length |-> 0] } \cup
  { [isArray |-> TRUE, length |-> n] : n \in 0..MaxBatch }
\* an element's event: /track/batch does not test it, so the store alone tells
\* the values apart: a string, or NULL for an absent one
BatchElements == { [event |-> e] : e \in EventNames \cup {Undefined} }

\* Bodies with every field a caller can put beside the event name that bears on
\* scoping and time: a tenantId of its own choosing and a timestamp (the SDK
\* sends one with every event). StoreNow is what the store's NOW() returns.
StoreNow == "now"
CallerTimestamps == {Undefined, "earlier", StoreNow}
TrackBodiesWide ==
  { [event |-> e, tenantId |-> t, timestamp |-> ts] :
      e \in EventInputs, t \in {Undefined} \cup Tenants, ts \in CallerTimestamps }
BatchElementsWide ==
  { [event |-> e, tenantId |-> t, timestamp |-> ts] :
      e \in EventInputs, t \in {Undefined} \cup Tenants, ts \in CallerTimestamps }

\* Bodies of events that carry a user identifier, and the inputs of the query
\* routes: the filters of GET /events and the steps of POST /analytics/funnel.
UserIds == {"u1"}
TrackBodiesUser == { [event |-> e, userId |-> u] : e \in EventNames, u \in UserIds \cup {Undefined} }
EventFilters ==
  { [eventType |-> e, userId |-> u] :
      e \in EventNames \cup {Undefined}, u \in UserIds \cup {Undefined} }
FunnelSteps == { << "signup" >>, << "signup", "purchase" >> }
NoResult == [op |-> "none"]

\* ------------------------------------------------------------------- state
VARIABLES
  pc,              \* per call: where the handler is suspended
  kind,            \* per call: "track" or "batch"
  tenantId,        \* per call: req.tenantId set by authenticateTenant
  credential,      \* per call: the apiKey the request carried (history)
  body,            \* per call: req.body while the handler runs
  rows,            \* per call: rows inserted in the call's open transaction
  response,        \* per call: the HTTP statuses sent on res, in order
  client,          \* per call: the pooled store client: "none", "held", "released"
  trace,           \* per call: the steps the handler has run, in order (history)
  committed,       \* the events table: committed rows in commit order
  index,           \* the documents held by the Aggregation Index
  sseConnections,  \* global.sseConnections: entries in insertion order
  chan,            \* per stream: state of the response channel
  streamTenant,    \* per stream: req.tenantId of the stream request
  streamCredential, \* per stream: the apiKey the request carried (history)
  connectionId,    \* per stream: the connectionId of the handler's closure
  heartbeat,       \* per stream: TRUE while the heartbeat interval is set
  recv,            \* per stream: messages written to the channel, in order
  writeFailed,     \* streams on which a res.write has thrown (history)
  fanout,          \* per call: the streams writable at its broadcast, and those
                   \* whose write threw in it (history)
  beats,           \* heartbeat messages written so far
  today,           \* the calendar day of the server's clock
  result,          \* what the last query request was answered, and the
                   \* single-event rows of its tenant committed before it (history)
  counts,          \* the counts the Aggregation Index answers a report with, in
                   \* order: the doc_count of each bucket of events_over_time,
                   \* the hits total of each step of a funnel
  funnelPc,        \* "idle", or "searching" while getFunnelAnalysis awaits a search
  funnelResults,   \* the results array of the getFunnelAnalysis call in flight
  reply,           \* what the last report request was answered
  eventQueue,      \* SDK: this.eventQueue, the pending events in order
  batchTimer,      \* SDK: TRUE while this.batchTimer holds a running interval
  inflight,        \* SDK: the POST /track/batch requests awaiting their response
  singles,         \* SDK: the events of the POST /track requests awaiting theirs
  acked,           \* SDK: the batches the server acknowledged (history)
  returned,        \* SDK: how each finished call ended (history)
  direct,          \* SDK: the events tracked with batching disabled (history)
  nTracked,        \* SDK: track() calls made; the n-th tracks event n
  nFlush,          \* SDK: flush() calls made
  stopped,         \* SDK: TRUE once shutdown() has been called (history)
  stoppedAt        \* SDK: the number of track() calls made before shutdown() (history)

callVars == << pc, kind, tenantId, credential, body, rows, response, client, trace >>
storeVars == << committed, index >>
hubVars == << sseConnections, chan, streamTenant, streamCredential, connectionId, heartbeat, recv,
              writeFailed, beats >>
queryVars == << today, result >>
reportVars == << counts, funnelPc, funnelResults, reply >>
sdkVars == << eventQueue, batchTimer, inflight, singles, acked, returned, direct, nTracked,
              nFlush, stopped, stoppedAt >>
vars == << callVars, storeVars, hubVars, fanout, queryVars, reportVars, sdkVars >>

NoReply == [op |-> "none"]

\* no report has been asked for
ReportsIdle ==
  /\ funnelPc = "idle"
  /\ funnelResults = << >>
  /\ reply = NoReply

\* new Analytics(options): an empty queue; the interval runs unless
\* options.enableBatching is false
Constructor(enableBatching) ==
  /\ eventQueue = << >>
  /\ batchTimer = enableBatching
  /\ inflight = {}
  /\ singles = {}
  /\ acked = {}
  /\ returned = {}
  /\ direct = {}
  /\ nTracked = 0
  /\ nFlush = 0
  /\ stopped = FALSE
  /\ stoppedAt = 0

InitPipeline ==
  /\ pc = [c \in Calls |-> "idle"]
  /\ kind = [c \in Calls |-> "none"]
  /\ tenantId = [c \in Calls |-> NoTenant]
  /\ credential = [c \in Calls |-> NoCredential]
  /\ body = [c \in Calls |-> NoBody]
  /\ rows = [c \in Calls |-> <<>>]
  /\ response = [c \in Calls |-> <<>>]
  /\ client = [c \in Calls |-> "none"]
  /\ trace = [c \in Calls |-> <<>>]
  /\ committed = <<>>
  /\ sseConnections = <<>>
  /\ chan = [s \in Streams |-> "none"]
  /\ streamTenant = [s \in Streams |-> NoTenant]
  /\ streamCredential = [s \in Streams |-> NoCredential]
  /\ connectionId = [s \in Streams |-> 0]
  /\ heartbeat = [s \in Streams |-> FALSE]
  /\ recv = [s \in Streams |-> <<>>]
  /\ writeFailed = {}
  /\ fanout = [c \in Calls |-> [writable |-> {}, threw |-> {}]]
  /\ beats = 0
  /\ today = 1
  /\ result = NoResult

InitServer ==
  /\ InitPipeline
  /\ index = {}

Init ==
  /\ InitServer
  /\ counts = << >>
  /\ ReportsIdle
  /\ Constructor(FALSE)

\* ------------------------------------------------------------ small helpers
\* requests received so far
Requests ==
  Cardinality({ c \in Calls : pc[c] # "idle" }) + Cardinality({ s \in Streams : chan[s] # "none" })

Range(q) == { q[i] : i \in 1..Len(q) }

\* Map.prototype.set: a new key is appended, an existing key keeps its place
MapSet(m, entry) ==
  IF \E i \in 1..Len(m) : m[i].id = entry.id
  THEN [i \in 1..Len(m) |-> IF m[i].id = entry.id THEN entry ELSE m[i]]
  ELSE Append(m, entry)

\* Map.prototype.delete
MapDelete(m, id) == SelectSeq(m, LAMBDA e : e.id # id)

\* the tenants that have authenticated so far
TenantsSeen ==
  ({ tenantId[c] : c \in Calls } \cup { streamTenant[s] : s \in Streams }) \ {NoTenant}

\* The keys a request can carry. The tenants differ in nothing but their names,
\* so the first tenant to authenticate in a run is taken to be tA.
ApiKeys == NoKeys \cup {"key-A"} \cup (IF "tA" \in TenantsSeen THEN {"key-B"} ELSE {})

\* SELECT id FROM tenants WHERE api_key = $1
TenantLookup(apiKey) == { t.id : t \in { r \in TenantsTable : r.api_key = apiKey } }

\* res.write on a stream's response: it throws unless the channel is open
WriteThrows(res) == chan[res] # "open"

ConnectedMessage == [type |-> "connected", id |-> << 0, 0 >>]
HeartbeatMessage == [type |-> "heartbeat", id |-> << 0, 0 >>]
EventMessage(eventData) == [type |-> "event", id |-> eventData.id]


\* Authenticate calling next() for a key that is absent or matches no tenant
AuthenticateLenient(apiKey, dbOk) ==
  IF TenantLookup(apiKey) = {}
  THEN [status |-> 0, tenantId |-> "tA"]
  ELSE IF ~dbOk
  THEN [status |-> 500, tenantId |-> NoTenant]
  ELSE [status |-> 0, tenantId |-> CHOOSE t \in TenantLookup(apiKey) : TRUE]

\* authenticateTenant: the status it answers with (0: it called next()) and
\* req.tenantId; dbOk says whether the tenants lookup query resolved
Authenticate(apiKey, dbOk) ==
  IF apiKey = ""
  THEN [status |-> 401, tenantId |-> NoTenant]
  ELSE IF ~dbOk
  THEN [status |-> 500, tenantId |-> NoTenant]
  ELSE IF TenantLookup(apiKey) = {}
  THEN [status |-> 401, tenantId |-> NoTenant]
  ELSE [status |-> 0, tenantId |-> CHOOSE t \in TenantLookup(apiKey) : TRUE]

\* ------------------------------------------------------- realtime fan-out hub
\* The state a broadcast works on: the connection map, the channels' messages,
\* the streams whose write threw in it, and whether an exception left
\* broadcastEvent.
HubState == [conns |-> sseConnections, recv |-> recv, threw |-> {}, thrown |-> FALSE]

\* BroadcastVisit without the tenant filter
BroadcastVisitNoFilter(st, conn, tenant, message) ==
  IF WriteThrows(conn.res)
  THEN [st EXCEPT !.conns = MapDelete(@, conn.id), !.threw = @ \cup {conn.res}]
  ELSE [st EXCEPT !.recv[conn.res] = Append(@, message)]

\* BroadcastVisit without the try/catch around the write
BroadcastVisitNoCatch(st, conn, tenant, message) ==
  IF conn.tenantId = tenant
  THEN IF WriteThrows(conn.res)
       THEN [st EXCEPT !.threw = @ \cup {conn.res}, !.thrown = TRUE]
       ELSE [st EXCEPT !.recv[conn.res] = Append(@, message)]
  ELSE st

\* the callback of sseConnections.forEach in broadcastEvent, for one entry
BroadcastVisit(st, conn, tenant, message) ==
  IF conn.tenantId = tenant
  THEN IF WriteThrows(conn.res)
       THEN [st EXCEPT !.conns = MapDelete(@, conn.id), !.threw = @ \cup {conn.res}]
       ELSE [st EXCEPT !.recv[conn.res] = Append(@, message)]
  ELSE st

RECURSIVE ForEachConnAbort(_, _, _, _)
\* ForEachConn ending the iteration at the first failed write
ForEachConnAbort(todo, st, tenant, message) ==
  IF todo = <<>> \/ st.thrown THEN st
  ELSE LET conn == Head(todo)
           next == BroadcastVisit(st, conn, tenant, message)
       IN IF conn.tenantId = tenant /\ WriteThrows(conn.res) THEN next
          ELSE ForEachConnAbort(Tail(todo), next, tenant, message)

RECURSIVE ForEachConn(_, _, _, _)
\* sseConnections.forEach: the entries in insertion order; an exception that
\* leaves the callback ends the iteration
ForEachConn(todo, st, tenant, message) ==
  IF todo = <<>> \/ st.thrown THEN st
  ELSE ForEachConn(Tail(todo), BroadcastVisit(st, Head(todo), tenant, message),
                   tenant, message)

\* broadcastEvent(tenantId, eventData)
BroadcastEvent(st, tenant, eventData) ==
  ForEachConn(st.conns, st, tenant, EventMessage(eventData))

\* FirstMessages followed by the tenant's stored events
FirstMessagesWithBacklog(tenant) ==
  << ConnectedMessage >> \o
    [i \in 1..Len(SelectSeq(committed, LAMBDA r : r.tenant_id = tenant)) |->
       EventMessage(SelectSeq(committed, LAMBDA r : r.tenant_id = tenant)[i])]

\* FirstMessages with a liveness pulse ahead of the confirmation
FirstMessagesPulseFirst(tenant) == << HeartbeatMessage, ConnectedMessage >>

\* what the /events/stream handler writes to a new stream before it registers it
FirstMessages(tenant) == << ConnectedMessage >>

\* GET /events/stream: authenticateTenant, then the handler: the connected
\* message, the heartbeat interval, the registration under connectionId.
\* connectionId = Date.now() + Math.random() is a fresh number or, when it
\* rounds to a number drawn before, the id of an earlier stream.
StreamOpen(s, apiKey, dbOk, id) ==
  /\ chan[s] = "none"
  /\ Requests < MaxRequests
  /\ IF s = 1 THEN TRUE ELSE chan[s - 1] # "none"
  /\ streamCredential' = [streamCredential EXCEPT ![s] = apiKey]
  /\ LET auth == Authenticate(apiKey, dbOk) IN
     IF auth.status # 0
     THEN /\ chan' = [chan EXCEPT ![s] = "rejected"]
          /\ UNCHANGED << sseConnections, streamTenant, connectionId, heartbeat, recv >>
     ELSE /\ chan' = [chan EXCEPT ![s] = "open"]
          /\ streamTenant' = [streamTenant EXCEPT ![s] = auth.tenantId]
          /\ recv' = [recv EXCEPT ![s] = FirstMessages(auth.tenantId)]
          /\ heartbeat' = [heartbeat EXCEPT ![s] = TRUE]
          /\ connectionId' = [connectionId EXCEPT ![s] = id]
          /\ sseConnections' =
               MapSet(sseConnections, [id |-> id, res |-> s, tenantId |-> auth.tenantId])
  /\ UNCHANGED << queryVars, reportVars, sdkVars, callVars, storeVars, writeFailed, beats, fanout >>

\* the ids a new stream can draw: a fresh one, or one drawn by an earlier stream
NewConnectionIds(s) == {s} \cup { connectionId[d] : d \in { e \in Streams : chan[e] \in {"open", "broken", "closed"} } }

\* the heartbeat interval's callback
Heartbeat(s) ==
  /\ heartbeat[s]
  /\ IF WriteThrows(s)
     THEN /\ heartbeat' = [heartbeat EXCEPT ![s] = FALSE]
          /\ writeFailed' = writeFailed \cup {s}
          /\ UNCHANGED << recv, beats >>
     ELSE /\ beats < MaxBeats
          /\ recv' = [recv EXCEPT ![s] = Append(@, HeartbeatMessage)]
          /\ beats' = beats + 1
          /\ UNCHANGED << heartbeat, writeFailed >>
  /\ UNCHANGED << queryVars, reportVars, sdkVars, callVars, storeVars, sseConnections, chan, streamTenant, streamCredential,
                  connectionId, fanout >>

\* StreamCleanup leaving the entry in the mapping
StreamCleanupKeepsEntry(s) ==
  /\ heartbeat' = [heartbeat EXCEPT ![s] = FALSE]
  /\ sseConnections' = sseConnections

\* the cleanup both req.on("close") and req.on("error") run
StreamCleanup(s) ==
  /\ heartbeat' = [heartbeat EXCEPT ![s] = FALSE]
  /\ sseConnections' = MapDelete(sseConnections, connectionId[s])

\* the stream's socket breaks: from now on res.write throws
StreamBreak(s) ==
  /\ chan[s] = "open"
  /\ chan' = [chan EXCEPT ![s] = "broken"]
  /\ UNCHANGED << queryVars, reportVars, sdkVars, callVars, storeVars, sseConnections, streamTenant, streamCredential, connectionId,
                  heartbeat, recv, writeFailed, beats, fanout >>

\* req.on("error"): the request of a broken socket reports the error and is
\* closed; the close handler that follows finds nothing left to clean up
StreamError(s) ==
  /\ chan[s] = "broken"
  /\ chan' = [chan EXCEPT ![s] = "closed"]
  /\ StreamCleanup(s)
  /\ UNCHANGED << queryVars, reportVars, sdkVars, callVars, storeVars, streamTenant, streamCredential, connectionId, recv,
                  writeFailed, beats, fanout >>

\* req.on("close"): the client went away, or the broken socket was closed
StreamClose(s) ==
  /\ chan[s] \in {"open", "broken"}
  /\ chan' = [chan EXCEPT ![s] = "closed"]
  /\ StreamCleanup(s)
  /\ UNCHANGED << queryVars, reportVars, sdkVars, callVars, storeVars, streamTenant, streamCredential, connectionId, recv,
                  writeFailed, beats, fanout >>


\* ------------------------------------------------------- ingestion pipeline
Step(c, labels) == trace' = [trace EXCEPT ![c] = @ \o labels]

\* a request that ends in the middleware or in the handler's validation
Reject(c, k, status) ==
  /\ pc' = [pc EXCEPT ![c] = "done"]
  /\ UNCHANGED body
  /\ kind' = [kind EXCEPT ![c] = k]
  /\ response' = [response EXCEPT ![c] = << status >>]
  /\ Step(c, << "respond" >>)

\* a validated request: the handler awaits pool.connect()
Accept(c, k, b) ==
  /\ pc' = [pc EXCEPT ![c] = "connect"]
  /\ kind' = [kind EXCEPT ![c] = k]
  /\ body' = [body EXCEPT ![c] = b]
  /\ Step(c, << >>)
  /\ UNCHANGED response

\* !event
Falsy(v) == v \in {Undefined, ""}

\* a request that ends in the handler's validation with 400; body keeps what
\* the request carried (history)
Invalid(c, k, b) ==
  /\ pc' = [pc EXCEPT ![c] = "done"]
  /\ kind' = [kind EXCEPT ![c] = k]
  /\ body' = [body EXCEPT ![c] = b]
  /\ response' = [response EXCEPT ![c] = << 400 >>]
  /\ Step(c, << "respond" >>)

\* POST /track: authenticateTenant, then the handler up to pool.connect()
TrackRequest(c, apiKey, dbOk, b) ==
  /\ pc[c] = "idle"
  /\ Requests < MaxRequests
  /\ IF c = 1 THEN TRUE ELSE pc[c - 1] # "idle"
  /\ LET auth == Authenticate(apiKey, dbOk) IN
     /\ tenantId' = [tenantId EXCEPT ![c] = auth.tenantId]
     /\ credential' = [credential EXCEPT ![c] = apiKey]
     /\ IF auth.status # 0
        THEN Reject(c, "track", auth.status)
        ELSE IF Falsy(b.event)
        THEN Invalid(c, "track", b)
        ELSE Accept(c, "track", b)
  /\ UNCHANGED << queryVars, reportVars, sdkVars, rows, client, storeVars, hubVars, fanout >>

\* EventsRejected letting an empty array through
EventsRejectedUnlessEmpty(b) == ~b.isArray

\* !Array.isArray(events) || events.length === 0
EventsRejected(b) == ~b.isArray \/ b.length = 0

\* POST /track/batch: authenticateTenant, then the handler up to pool.connect()
BatchRequest(c, apiKey, dbOk, b) ==
  /\ pc[c] = "idle"
  /\ Requests < MaxRequests
  /\ IF c = 1 THEN TRUE ELSE pc[c - 1] # "idle"
  /\ LET auth == Authenticate(apiKey, dbOk) IN
     /\ tenantId' = [tenantId EXCEPT ![c] = auth.tenantId]
     /\ credential' = [credential EXCEPT ![c] = apiKey]
     /\ IF auth.status # 0
        THEN Reject(c, "batch", auth.status)
        ELSE IF EventsRejected(b)
        THEN Invalid(c, "batch", b)
        ELSE Accept(c, "batch", b)
  /\ UNCHANGED << queryVars, reportVars, sdkVars, rows, client, storeVars, hubVars, fanout >>

\* the handler returns, or an exception leaves it: its locals are gone
Done(c) ==
  /\ pc' = [pc EXCEPT ![c] = "done"]
  /\ body' = [body EXCEPT ![c] = NoBody]

\* await pool.connect(): outside the try block, so a rejection leaves the handler
PoolConnect(c, ok) ==
  /\ pc[c] = "connect"
  /\ IF ok
     THEN /\ pc' = [pc EXCEPT ![c] = "begin"]
          /\ client' = [client EXCEPT ![c] = "held"]
          /\ Step(c, << "connect" >>)
          /\ UNCHANGED body
     ELSE /\ Done(c)
          /\ Step(c, << "connect!" >>)
          /\ UNCHANGED client
  /\ UNCHANGED << queryVars, reportVars, sdkVars, kind, tenantId, credential, rows, response, storeVars, hubVars, fanout >>

\* await client.query("BEGIN")
TxBegin(c, ok) ==
  /\ pc[c] = "begin"
  /\ pc' = [pc EXCEPT ![c] = IF ok THEN "insert" ELSE "rollback"]
  /\ Step(c, << IF ok THEN "BEGIN" ELSE "BEGIN!" >>)
  /\ UNCHANGED << queryVars, reportVars, sdkVars, kind, tenantId, credential, body, rows, response, client, storeVars, hubVars,
                  fanout >>

\* a field of a JSON object: undefined when the object has none of that name
Field(obj, name) == IF name \in DOMAIN obj THEN obj[name] ELSE Undefined

\* NewRow taking the tenant from the body when the body names one
NewRowTenantFromBody(c, k, evt) ==
  [id |-> << c, k >>,
   tenant_id |-> IF evt.tenantId # Undefined THEN evt.tenantId ELSE tenantId[c],
   event_type |-> evt.event, user_id |-> Field(evt, "userId"), timestamp |-> StoreNow]

\* the row an INSERT of the call's k-th event builds; the id is the store's
\* gen_random_uuid(), unique per row, the timestamp the column's DEFAULT NOW()
NewRow(c, k, evt) ==
  [id |-> << c, k >>, tenant_id |-> tenantId[c], event_type |-> evt.event,
   user_id |-> Field(evt, "userId"), timestamp |-> StoreNow]

\* event_type VARCHAR(100) NOT NULL
StoreAccepts(row) == row.event_type # Undefined

\* /track: await client.query(INSERT ...)
TrackInsert(c, ok) ==
  /\ pc[c] = "insert" /\ kind[c] = "track"
  /\ IF ok /\ StoreAccepts(NewRow(c, 1, body[c]))
     THEN /\ rows' = [rows EXCEPT ![c] = << NewRow(c, 1, body[c]) >>]
          /\ pc' = [pc EXCEPT ![c] = "index"]
          /\ Step(c, << "INSERT" >>)
     ELSE /\ pc' = [pc EXCEPT ![c] = "rollback"]
          /\ Step(c, << "INSERT!" >>)
          /\ UNCHANGED rows
  /\ UNCHANGED << queryVars, reportVars, sdkVars, kind, tenantId, credential, body, response, client, storeVars, hubVars, fanout >>

\* /track/batch: one turn of the insert loop
BatchInsert(c, ok, evt) ==
  /\ pc[c] = "insert" /\ kind[c] = "batch"
  /\ LET k == Len(rows[c]) + 1 IN
     IF ok /\ StoreAccepts(NewRow(c, k, evt))
     THEN /\ rows' = [rows EXCEPT ![c] = Append(@, NewRow(c, k, evt))]
          /\ pc' = [pc EXCEPT ![c] = IF k = body[c].length THEN "index" ELSE "insert"]
          /\ Step(c, << "INSERT" >>)
     ELSE /\ pc' = [pc EXCEPT ![c] = "rollback"]
          /\ Step(c, << "INSERT!" >>)
          /\ UNCHANGED rows
  /\ UNCHANGED << queryVars, reportVars, sdkVars, kind, tenantId, credential, body, response, client, storeVars, hubVars, fanout >>

\* getEventIndex(tenantId): the tenant and the date of the call
EventIndex(tenant) == << tenant, today >>

\* the document indexEvent and bulkIndexEvents build for an event, and the
\* index they put it in; src names the row it mirrors (history, not a field of
\* the document)
IndexDocument(tenant, row) ==
  [index_name |-> EventIndex(tenant), tenant_id |-> tenant,
   event_type |-> row.event_type, user_id |-> row.user_id,
   timestamp |-> row.timestamp, src |-> row.id]

\* the streams registered for a tenant whose channel is writable (history)
Writable(tenant) ==
  { e.res : e \in { x \in Range(sseConnections) : x.tenantId = tenant /\ chan[x.res] = "open" } }

\* what the handler does with the hub state a broadcast returns
AfterBroadcast(c, st) ==
  /\ sseConnections' = st.conns
  /\ recv' = st.recv
  /\ writeFailed' = writeFailed \cup st.threw
  /\ fanout' = [fanout EXCEPT ![c] = [writable |-> Writable(tenantId[c]), threw |-> st.threw]]
  /\ pc' = [pc EXCEPT ![c] = IF st.thrown THEN "rollback" ELSE "commit"]

\* /track: eventForBroadcast and the broadcastEvent call
TrackBroadcast(st, tenant, row) ==
  BroadcastEvent(st, tenant, [id |-> row.id, event_type |-> row.event_type])

RECURSIVE BatchBroadcastFrom(_, _, _, _)
BatchBroadcastFrom(st, tenant, evts, i) ==
  IF i > Len(evts) \/ st.thrown THEN st
  ELSE BatchBroadcastFrom(
         BroadcastEvent(st, tenant, [id |-> evts[i].id, event_type |-> evts[i].event_type]),
         tenant, evts, i + 1)

\* BatchBroadcast leaving out the last event
BatchBroadcastSkipLast(st, tenant, evts) ==
  BatchBroadcastFrom(st, tenant, SubSeq(evts, 1, Len(evts) - 1), 1)

\* BatchBroadcast walking the events backwards
BatchBroadcastReversed(st, tenant, evts) ==
  BatchBroadcastFrom(st, tenant, [i \in 1..Len(evts) |-> evts[Len(evts) + 1 - i]], 1)

\* BatchBroadcast yielding after its first event, so that an event of another
\* call (here one of no call) is broadcast before the rest
BatchBroadcastInterleaved(st, tenant, evts) ==
  BatchBroadcastFrom(st, tenant,
                     << evts[1], [id |-> << 0, 0 >>, event_type |-> "signup"] >>
                       \o SubSeq(evts, 2, Len(evts)), 1)

\* /track/batch: opensearchEvents.forEach((evt, index) => broadcastEvent(...))
BatchBroadcast(st, tenant, evts) == BatchBroadcastFrom(st, tenant, evts, 1)

\* /track: await opensearch.indexEvent(...), then the broadcast, up to COMMIT
TrackIndex(c, ok) ==
  /\ pc[c] = "index" /\ kind[c] = "track"
  /\ IF ok
     THEN /\ index' = index \cup { IndexDocument(tenantId[c], rows[c][1]) }
          /\ AfterBroadcast(c, TrackBroadcast(HubState, tenantId[c], rows[c][1]))
          /\ Step(c, << "index", "broadcast" >>)
     ELSE /\ pc' = [pc EXCEPT ![c] = "rollback"]
          /\ Step(c, << "index!" >>)
          /\ UNCHANGED << index, sseConnections, recv, writeFailed, fanout >>
  /\ UNCHANGED << queryVars, reportVars, sdkVars, kind, tenantId, credential, body, rows, response, client, committed, chan,
                  streamTenant, streamCredential, connectionId, heartbeat, beats >>

\* /track/batch: await opensearch.bulkIndexEvents(...), then the broadcast loop
BatchIndex(c, ok) ==
  /\ pc[c] = "index" /\ kind[c] = "batch"
  /\ IF ok
     THEN /\ index' = index \cup { IndexDocument(tenantId[c], r) : r \in Range(rows[c]) }
          /\ AfterBroadcast(c, BatchBroadcast(HubState, tenantId[c], rows[c]))
          /\ Step(c, << "index" >> \o [i \in 1..Len(rows[c]) |-> "broadcast"])
     ELSE /\ pc' = [pc EXCEPT ![c] = "rollback"]
          /\ Step(c, << "index!" >>)
          /\ UNCHANGED << index, sseConnections, recv, writeFailed, fanout >>
  /\ UNCHANGED << queryVars, reportVars, sdkVars, kind, tenantId, credential, body, rows, response, client, committed, chan,
                  streamTenant, streamCredential, connectionId, heartbeat, beats >>

\* await client.query("COMMIT"), then the 201 response and finally release
TxCommit(c, ok) ==
  /\ pc[c] = "commit"
  /\ IF ok
     THEN /\ committed' = committed \o rows[c]
          /\ response' = [response EXCEPT ![c] = Append(@, 201)]
          /\ client' = [client EXCEPT ![c] = "released"]
          /\ Done(c)
          /\ rows' = [rows EXCEPT ![c] = << >>]
          /\ Step(c, << "COMMIT", "respond", "release" >>)
     ELSE /\ pc' = [pc EXCEPT ![c] = "rollback"]
          /\ Step(c, << "COMMIT!" >>)
          /\ UNCHANGED << committed, response, client, rows, body >>
  /\ UNCHANGED << queryVars, reportVars, sdkVars, kind, tenantId, credential, index, hubVars, fanout >>

\* TxRollback with the release after the catch block instead of in a finally:
\* a ROLLBACK that rejects skips it
TxRollbackLeaks(c, ok) ==
  /\ pc[c] = "rollback"
  /\ Done(c)
  /\ IF ok
     THEN /\ client' = [client EXCEPT ![c] = "released"]
          /\ rows' = [rows EXCEPT ![c] = << >>]
          /\ response' = [response EXCEPT ![c] = Append(@, 500)]
          /\ Step(c, << "ROLLBACK", "respond", "release" >>)
     ELSE /\ Step(c, << "ROLLBACK!" >>)
          /\ UNCHANGED << client, rows, response >>
  /\ UNCHANGED << queryVars, reportVars, sdkVars, kind, tenantId, credential, storeVars, hubVars, fanout >>

\* catch: await client.query("ROLLBACK"), the 500 response, finally release;
\* a ROLLBACK that rejects leaves the catch block before the response
TxRollback(c, ok) ==
  /\ pc[c] = "rollback"
  /\ Done(c)
  /\ client' = [client EXCEPT ![c] = "released"]
  /\ IF ok
     THEN /\ rows' = [rows EXCEPT ![c] = << >>]
          /\ response' = [response EXCEPT ![c] = Append(@, 500)]
          /\ Step(c, << "ROLLBACK", "respond", "release" >>)
     ELSE /\ Step(c, << "ROLLBACK!", "release" >>)
          /\ UNCHANGED << rows, response >>
  /\ UNCHANGED << queryVars, reportVars, sdkVars, kind, tenantId, credential, storeVars, hubVars, fanout >>

\* ---------------------------------------------------------------- numbers
\* A JavaScript number is kept as a fraction num/den, and the string
\* Number.prototype.toFixed builds as its digits: the integer scaled with
\* digits decimals shifted in. The counts of a model run stay far below the
\* smallest divisor (16) for which a quotient falls half way between two
\* decimals, so the rounding of toFixed is that of the exact quotient.
Number(n) == [type |-> "number", num |-> n, den |-> 1]

Pow10(d) == IF d = 0 THEN 1 ELSE IF d = 1 THEN 10 ELSE 100

\* the integer nearest to a / b, for b > 0
Nearest(a, b) == (2 * a + b) \div (2 * b)

\* (a / b).toFixed(digits)
ToFixed(a, b, digits) ==
  [type |-> "string", scaled |-> Nearest(a * Pow10(digits), b), digits |-> digits]

\* parseFloat(v): the number a string of digits denotes; a number passes
\* through String(v) and comes back the same
ParseFloat(v) ==
  IF v.type = "string"
  THEN [type |-> "number", num |-> v.scaled, den |-> Pow10(v.digits)]
  ELSE v

\* items.reduce((sum, item) => sum + item.count, 0)
RECURSIVE Sum(_)
Sum(items) == IF items = << >> THEN 0 ELSE Head(items) + Sum(Tail(items))

\* a growth rate handed to res.json without the parseFloat
GrowthRateUnparsed(events) ==
  LET midPoint == Len(events) \div 2
      firstHalf == Sum(SubSeq(events, 1, midPoint))
      secondHalf == Sum(SubSeq(events, midPoint + 1, Len(events)))
  IN IF firstHalf > 0
     THEN ToFixed((secondHalf - firstHalf) * 100, firstHalf, 1)
     ELSE Number(0)

\* the growth rate /analytics/usage computes from events_over_time
GrowthRate(events) ==
  LET midPoint == Len(events) \div 2
      firstHalf == Sum(SubSeq(events, 1, midPoint))
      secondHalf == Sum(SubSeq(events, midPoint + 1, Len(events)))
      growthRate == IF firstHalf > 0
                    THEN ToFixed((secondHalf - firstHalf) * 100, firstHalf, 1)
                    ELSE Number(0)
  IN ParseFloat(growthRate)

\* the results.forEach of getFunnelAnalysis: the conversion rate of every step
\* against the first
ConversionRates(results) ==
  [i \in 1..Len(results) |->
     [step |-> results[i].step, event |-> results[i].event, count |-> results[i].count,
      unique_users |-> results[i].unique_users,
      conversion_rate |->
        IF i = 1 THEN Number(100)
        ELSE IF results[1].count > 0
             THEN ToFixed(results[i].count * 100, results[1].count, 2)
             ELSE Number(0)]]

\* ------------------------------------------------------------- query routes
\* Hits matching on the day alone, whatever the tenant
HitsAnyTenant(tenant, docs) == { d \in docs : d.index_name[2] = today }

\* the documents a search of OpenSearchService reaches: those of the index
\* getEventIndex(tenantId) names that pass the term filter on tenant_id
Hits(tenant, docs) ==
  { d \in docs : d.index_name = EventIndex(tenant) /\ d.tenant_id = tenant }

\* client.search rejects when the index it names does not exist; an index
\* exists once a document has been written to it
SearchRejects(tenant, docs) == { d \in docs : d.index_name = EventIndex(tenant) } = {}

\* searchEvents(tenantId, query): the documents that pass every filter the query
\* supplies (the hits are sorted by timestamp, which is the same for all of them)
SearchEvents(tenant, q, docs) ==
  LET found == { d \in Hits(tenant, docs) :
                   /\ Falsy(q.eventType) \/ d.event_type = q.eventType
                   /\ Falsy(q.userId) \/ d.user_id = q.userId }
  IN [events |-> found, total |-> Cardinality(found)]

\* getAnalytics(tenantId, query): the aggregations over the hits
GetAnalytics(tenant, docs) ==
  LET found == Hits(tenant, docs) IN
  [total_events |-> Cardinality(found),
   unique_users |-> Cardinality({ d.user_id : d \in found } \ {Undefined}),
   events_over_time |->
     [ts \in { d.timestamp : d \in found } |-> Cardinality({ d \in found : d.timestamp = ts })],
   top_events |->
     [e \in { d.event_type : d \in found } |-> Cardinality({ d \in found : d.event_type = e })]]

\* /analytics/usage: the analytics and the growth rate of the second half of
\* the histogram over the first; every document of a run carries the same
\* timestamp, so the histogram has one bucket, or none
GetUsage(tenant, docs) ==
  LET analytics == GetAnalytics(tenant, docs)
      events == IF analytics.total_events = 0 THEN << >> ELSE << analytics.total_events >>
  IN [analytics |-> analytics, growth_rate |-> GrowthRate(events)]

\* a sequential funnel: a step past the first keeps only the hits whose user
\* also has a hit of the step before
StepHitsSequential(tenant, steps, i, docs) ==
  { d \in Hits(tenant, docs) :
      /\ d.event_type = steps[i]
      /\ i > 1 => \E x \in Hits(tenant, docs) :
                     x.event_type = steps[i - 1] /\ x.user_id = d.user_id }

\* the hits of the search getFunnelAnalysis makes for step i: the tenant's
\* documents with the term event_type of that step
StepHits(tenant, steps, i, docs) ==
  { d \in Hits(tenant, docs) : d.event_type = steps[i] }

\* getFunnelAnalysis(tenantId, events): per step the count and the users of
\* the hits of that event type, and the conversion against the first step
GetFunnelAnalysis(tenant, steps, docs) ==
  LET count(i) == Cardinality(StepHits(tenant, steps, i, docs))
      users(i) == Cardinality({ d.user_id : d \in StepHits(tenant, steps, i, docs) }
                                \ {Undefined})
  IN ConversionRates([i \in 1..Len(steps) |->
                        [step |-> i, event |-> steps[i], count |-> count(i),
                         unique_users |-> users(i)]])

\* the single-event rows of the tenant committed so far
IngestedOne(tenant) ==
  { r \in Range(committed) : r.tenant_id = tenant /\ kind[r.id[1]] = "track" }

\* what a query route answers with, from a set of documents
PayloadOf(op, tenant, q, docs) ==
  CASE op = "events" -> SearchEvents(tenant, q, docs)
    [] op = "analytics" -> GetAnalytics(tenant, docs)
    [] op = "usage" -> GetUsage(tenant, docs)
    [] op = "funnel" -> GetFunnelAnalysis(tenant, q, docs)

\* a query route: authenticateTenant, then the OpenSearchService call and the
\* response; ok says whether the search cluster answered (kept in the result
\* as history)
Answer(op, apiKey, dbOk, ok, q) ==
  LET auth == Authenticate(apiKey, dbOk) IN
  /\ result' =
       IF auth.status # 0
       THEN [op |-> op, tenantId |-> NoTenant, query |-> << >>, status |-> auth.status,
             payload |-> << >>, ingested |-> {}, cluster |-> TRUE]
       ELSE IF ~ok \/ SearchRejects(auth.tenantId, index)
       THEN [op |-> op, tenantId |-> auth.tenantId, query |-> q, status |-> 500,
             payload |-> << >>, ingested |-> IngestedOne(auth.tenantId), cluster |-> ok]
       ELSE [op |-> op, tenantId |-> auth.tenantId, query |-> q, status |-> 200,
             payload |-> PayloadOf(op, auth.tenantId, q, index), ingested |-> IngestedOne(auth.tenantId),
             cluster |-> TRUE]
  /\ UNCHANGED << callVars, storeVars, hubVars, fanout, today, reportVars, sdkVars >>

\* GET /events
EventsQuery(apiKey, dbOk, ok, q) == Answer("events", apiKey, dbOk, ok, q)

\* GET /analytics
AnalyticsQuery(apiKey, dbOk, ok) == Answer("analytics", apiKey, dbOk, ok, << >>)

\* GET /analytics/usage
UsageQuery(apiKey, dbOk, ok) == Answer("usage", apiKey, dbOk, ok, << >>)

\* POST /analytics/funnel
FunnelQuery(apiKey, dbOk, ok, steps) == Answer("funnel", apiKey, dbOk, ok, steps)

\* midnight: the date of new Date() changes
DayPasses ==
  /\ today < MaxDays
  /\ today' = today + 1
  /\ UNCHANGED << callVars, storeVars, hubVars, fanout, result, reportVars, sdkVars >>

\* ---------------------------------------------------------------- reports
\* The arithmetic of the report routes, over every short list of counts the
\* Aggregation Index can answer with. getFunnelAnalysis awaits one search per
\* step; each resolution is one action.
CountLists == UNION { [1..n -> 0..MaxCount] : n \in 0..MaxBuckets }

\* a route that answers with the steps it has
FunnelFailedPartial(results) ==
  [op |-> "funnel", status |-> 500, funnel |-> results, searched |-> Len(results)]

\* what the caller is sent when a search of the funnel rejects: the catch of
\* getFunnelAnalysis rethrows and the route answers 500 with an error alone;
\* searched is the number of steps answered before (history)
FunnelFailed(results) ==
  [op |-> "funnel", status |-> 500, funnel |-> << >>, searched |-> Len(results)]

\* GET /analytics/usage with a histogram of the given counts; ok says whether
\* the search resolved
UsageReport(ok) ==
  /\ reply' = IF ok
              THEN [op |-> "usage", status |-> 200, growth_rate |-> GrowthRate(counts)]
              ELSE [op |-> "usage", status |-> 500]
  /\ UNCHANGED << callVars, storeVars, hubVars, fanout, queryVars, sdkVars, counts, funnelPc,
                  funnelResults >>

\* POST /analytics/funnel: one step of the request per count; an empty list is
\* answered 400, otherwise getFunnelAnalysis starts
FunnelRequest ==
  /\ funnelPc = "idle"
  /\ IF Len(counts) = 0
     THEN /\ reply' = [op |-> "funnel", status |-> 400, funnel |-> << >>, searched |-> 0]
          /\ UNCHANGED << funnelPc, funnelResults >>
     ELSE /\ funnelPc' = "searching"
          /\ funnelResults' = << >>
          /\ UNCHANGED reply
  /\ UNCHANGED << callVars, storeVars, hubVars, fanout, queryVars, sdkVars, counts >>

\* the search of the next step settles: rejected, or resolved with the hits
\* total of the step and the cardinality of user_id among the hits
FunnelSearch(ok, uniqueUsers) ==
  /\ funnelPc = "searching"
  /\ LET i == Len(funnelResults) + 1
         results == Append(funnelResults,
                           [step |-> i, event |-> i, count |-> counts[i],
                            unique_users |-> uniqueUsers])
     IN /\ uniqueUsers <= counts[i]
        /\ IF ~ok
           THEN /\ reply' = FunnelFailed(funnelResults)
                /\ funnelPc' = "idle"
                /\ funnelResults' = << >>
           ELSE IF i = Len(counts)
           THEN /\ reply' = [op |-> "funnel", status |-> 200,
                             funnel |-> ConversionRates(results), searched |-> i]
                /\ funnelPc' = "idle"
                /\ funnelResults' = << >>
           ELSE /\ funnelResults' = results
                /\ UNCHANGED << funnelPc, reply >>
  /\ UNCHANGED << callVars, storeVars, hubVars, fanout, queryVars, sdkVars, counts >>

\* ------------------------------------------------------------- SDK client
\* The Analytics class of the SDK. Events are numbered in the order of the
\* track() calls; a flush() call is numbered when it is made. One action is
\* one call up to its first await, or the settling of one awaited request
\* with everything the callers awaiting it then do.
serverVars == << callVars, storeVars, hubVars, fanout, queryVars, reportVars >>

\* how a finished call ended: kind is "queued" ({queued: true, queueSize}),
\* "ack" (response.data), "empty" ({success: true, count: 0}), "done"
\* (undefined), "warned" (the rejection was caught and logged) or "error"
\* (the call rejected)
Ended(call, of, how, queueSize) ==
  [call |-> call, of |-> of, kind |-> how, queueSize |-> queueSize]

\* the queue with an event enqueued on a track() that was told not to batch
DirectEnqueues(queue, e) == Append(queue, e)

\* track() with options.enableBatching === false: the queue is not touched
DirectQueue(queue, e) == queue

\* a flush that leaves the queue as it is after copying it
QueueKept(queue) == queue

\* flush(): this.eventQueue = [] after the copy
QueueAfterTake(queue) == << >>

\* a failed flush that pushes its events behind the queue
RequeueAtBack(events, queue) == queue \o events

\* flush(), catch: this.eventQueue.unshift(...events)
Requeue(events, queue) == events \o queue

\* a timer callback that awaits flush() without a try
TimerRejects(of) == Ended("timer", of, "error", 0)

\* the timer callback when its flush() rejects: caught, console.warn
TimerCatches(of) == Ended("timer", of, "warned", 0)

\* a shutdown() that leaves the interval running
TimerLeftRunning == batchTimer

\* shutdown(): clearInterval(this.batchTimer); this.batchTimer = null
TimerAfterShutdown == FALSE

\* flush() past its length check: the copy of the queue posted to
\* /track/batch; origin is the caller, caller the event of a track() that
\* awaits the flush
Post(origin, caller, queue) ==
  [id |-> nFlush + 1, events |-> queue, origin |-> origin, caller |-> caller]

\* track(event, properties, options)
Track(batching) ==
  /\ nTracked < MaxEvents
  /\ LET e == nTracked + 1
         queue == Append(eventQueue, e)
     IN /\ nTracked' = e
        /\ IF ~batching
           THEN /\ singles' = singles \cup {e}
                /\ direct' = direct \cup {e}
                /\ eventQueue' = DirectQueue(eventQueue, e)
                /\ UNCHANGED << inflight, returned, nFlush >>
           ELSE IF Len(queue) >= BatchSize
           THEN /\ nFlush < MaxFlushes
                /\ nFlush' = nFlush + 1
                /\ inflight' = inflight \cup {Post("track", e, queue)}
                /\ eventQueue' = QueueAfterTake(queue)
                /\ UNCHANGED << singles, direct, returned >>
           ELSE /\ eventQueue' = queue
                /\ returned' = returned \cup {Ended("track", e, "queued", Len(queue))}
                /\ UNCHANGED << singles, direct, inflight, nFlush >>
  /\ UNCHANGED << serverVars, batchTimer, acked, stopped, stoppedAt >>

\* sendEvent(eventData): the POST /track settles
SendSettles(e, ok) ==
  /\ e \in singles
  /\ singles' = singles \ {e}
  /\ returned' = returned \cup {Ended("track", e, IF ok THEN "ack" ELSE "error", 0)}
  /\ UNCHANGED << serverVars, eventQueue, batchTimer, inflight, acked, direct, nTracked, nFlush,
                  stopped, stoppedAt >>

\* flush() called by the application
Flush ==
  /\ nFlush < MaxFlushes
  /\ nFlush' = nFlush + 1
  /\ IF Len(eventQueue) = 0
     THEN /\ returned' = returned \cup {Ended("flush", nFlush + 1, "empty", 0)}
          /\ UNCHANGED << eventQueue, inflight >>
     ELSE /\ inflight' = inflight \cup {Post("flush", 0, eventQueue)}
          /\ eventQueue' = QueueAfterTake(eventQueue)
          /\ UNCHANGED returned
  /\ UNCHANGED << serverVars, batchTimer, singles, acked, direct, nTracked, stopped, stoppedAt >>

\* the setInterval callback of startBatchTimer fires
TimerTick ==
  /\ batchTimer
  /\ IF Len(eventQueue) > 0
     THEN /\ nFlush < MaxFlushes
          /\ nFlush' = nFlush + 1
          /\ inflight' = inflight \cup {Post("timer", 0, eventQueue)}
          /\ eventQueue' = QueueAfterTake(eventQueue)
     ELSE UNCHANGED << eventQueue, inflight, nFlush >>
  /\ UNCHANGED << serverVars, batchTimer, singles, acked, returned, direct, nTracked, stopped,
                  stoppedAt >>

\* shutdown()
Shutdown ==
  /\ ~stopped
  /\ stopped' = TRUE
  /\ stoppedAt' = nTracked
  /\ batchTimer' = TimerAfterShutdown
  /\ IF Len(eventQueue) > 0
     THEN /\ nFlush < MaxFlushes
          /\ nFlush' = nFlush + 1
          /\ inflight' = inflight \cup {Post("shutdown", 0, eventQueue)}
          /\ eventQueue' = QueueAfterTake(eventQueue)
          /\ UNCHANGED returned
     ELSE /\ returned' = returned \cup {Ended("shutdown", 0, "done", 0)}
          /\ UNCHANGED << eventQueue, inflight, nFlush >>
  /\ UNCHANGED << serverVars, singles, acked, direct, nTracked >>

\* the POST /track/batch of a flush() settles; what its caller does next
FlushSettles(f, ok) ==
  /\ f \in inflight
  /\ inflight' = inflight \ {f}
  /\ IF ok
     THEN /\ acked' = acked \cup {f}
          /\ UNCHANGED eventQueue
          /\ returned' =
               CASE f.origin = "flush" -> returned \cup {Ended("flush", f.id, "ack", 0)}
                 [] f.origin = "track" ->
                      returned \cup {Ended("track", f.caller, "queued", Len(eventQueue))}
                 [] f.origin = "timer" -> returned \cup {Ended("timer", f.id, "done", 0)}
                 [] f.origin = "shutdown" -> returned \cup {Ended("shutdown", 0, "done", 0)}
     ELSE /\ eventQueue' = Requeue(f.events, eventQueue)
          /\ UNCHANGED acked
          /\ returned' =
               CASE f.origin = "flush" -> returned \cup {Ended("flush", f.id, "error", 0)}
                 [] f.origin = "track" -> returned \cup {Ended("track", f.caller, "error", 0)}
                 [] f.origin = "timer" -> returned \cup {TimerCatches(f.id)}
                 [] f.origin = "shutdown" -> returned \cup {Ended("shutdown", 0, "error", 0)}
  /\ UNCHANGED << serverVars, batchTimer, singles, direct, nTracked, nFlush, stopped, stoppedAt >>

\* ------------------------------------------------------------ specification
Next ==
  \/ \E c \in Calls, apiKey \in ApiKeys, dbOk \in BOOLEAN, b \in TrackBodies :
       TrackRequest(c, apiKey, dbOk, b)
  \/ \E c \in Calls, apiKey \in ApiKeys, dbOk \in BOOLEAN, b \in BatchBodies :
       BatchRequest(c, apiKey, dbOk, b)
  \/ \E c \in Calls, ok \in BOOLEAN : PoolConnect(c, ok)
  \/ \E c \in Calls, ok \in BOOLEAN : TxBegin(c, ok)
  \/ \E c \in Calls, ok \in BOOLEAN : TrackInsert(c, ok)
  \/ \E c \in Calls, ok \in BOOLEAN, evt \in BatchElements : BatchInsert(c, ok, evt)
  \/ \E c \in Calls, ok \in BOOLEAN : TrackIndex(c, ok)
  \/ \E c \in Calls, ok \in BOOLEAN : BatchIndex(c, ok)
  \/ \E c \in Calls, ok \in BOOLEAN : TxCommit(c, ok)
  \/ \E c \in Calls, ok \in BOOLEAN : TxRollback(c, ok)
  \/ \E s \in Streams, apiKey \in ApiKeys, dbOk \in BOOLEAN :
       \E id \in NewConnectionIds(s) : StreamOpen(s, apiKey, dbOk, id)
  \/ \E s \in Streams : Heartbeat(s)
  \/ \E s \in Streams : StreamBreak(s)
  \/ \E s \in Streams : StreamError(s)
  \/ \E s \in Streams : StreamClose(s)

Spec == Init /\ [][Next]_vars

\* The same server under short runs of requests that carry the wide bodies.
MaxRequestsWide == 2

NextWide ==
  \/ /\ Requests < MaxRequestsWide
     /\ \E c \in Calls, apiKey \in ApiKeys, dbOk \in BOOLEAN, b \in TrackBodiesWide :
          TrackRequest(c, apiKey, dbOk, b)
  \/ /\ Requests < MaxRequestsWide
     /\ \E c \in Calls, apiKey \in ApiKeys, dbOk \in BOOLEAN, b \in BatchBodies :
          BatchRequest(c, apiKey, dbOk, b)
  \/ \E c \in Calls, ok \in BOOLEAN : PoolConnect(c, ok)
  \/ \E c \in Calls, ok \in BOOLEAN : TxBegin(c, ok)
  \/ \E c \in Calls, ok \in BOOLEAN : TrackInsert(c, ok)
  \/ \E c \in Calls, ok \in BOOLEAN, evt \in BatchElementsWide : BatchInsert(c, ok, evt)
  \/ \E c \in Calls, ok \in BOOLEAN : TrackIndex(c, ok)
  \/ \E c \in Calls, ok \in BOOLEAN : BatchIndex(c, ok)
  \/ \E c \in Calls, ok \in BOOLEAN : TxCommit(c, ok)
  \/ \E c \in Calls, ok \in BOOLEAN : TxRollback(c, ok)
  \/ /\ Requests < MaxRequestsWide
     /\ \E s \in Streams, apiKey \in ApiKeys, dbOk \in BOOLEAN :
          \E id \in NewConnectionIds(s) : StreamOpen(s, apiKey, dbOk, id)
  \/ \E s \in Streams : Heartbeat(s)
  \/ \E s \in Streams : StreamBreak(s)
  \/ \E s \in Streams : StreamError(s)
  \/ \E s \in Streams : StreamClose(s)

SpecWide == Init /\ [][NextWide]_vars

\* Single-event ingestion and the query routes over a run that can pass
\* midnight. The store answers every step of an ingestion here, the COMMIT
\* excepted, and the tenants lookup of every request (failing ingestions and
\* batches are the subject of Spec); the search cluster may fail a query.
NextQuery ==
  \/ \E c \in Calls, apiKey \in ApiKeys, b \in TrackBodiesUser :
       TrackRequest(c, apiKey, TRUE, b)
  \/ \E c \in Calls : PoolConnect(c, TRUE)
  \/ \E c \in Calls : TxBegin(c, TRUE)
  \/ \E c \in Calls : TrackInsert(c, TRUE)
  \/ \E c \in Calls : TrackIndex(c, TRUE)
  \/ \E c \in Calls, ok \in BOOLEAN : TxCommit(c, ok)
  \/ \E c \in Calls, ok \in BOOLEAN : TxRollback(c, ok)
  \/ \E apiKey \in ApiKeys, ok \in BOOLEAN, q \in EventFilters :
       EventsQuery(apiKey, TRUE, ok, q)
  \/ \E apiKey \in ApiKeys, ok \in BOOLEAN : AnalyticsQuery(apiKey, TRUE, ok)
  \/ \E apiKey \in ApiKeys, ok \in BOOLEAN : UsageQuery(apiKey, TRUE, ok)
  \/ \E apiKey \in ApiKeys, ok \in BOOLEAN, steps \in FunnelSteps :
       FunnelQuery(apiKey, TRUE, ok, steps)
  \/ DayPasses

SpecQuery == Init /\ [][NextQuery]_vars

\* The report arithmetic alone: the index holds any short list of counts, and
\* the usage and funnel routes are asked about it.
InitReports ==
  /\ InitServer
  /\ counts \in CountLists
  /\ ReportsIdle
  /\ Constructor(FALSE)

NextReports ==
  \/ \E ok \in BOOLEAN : UsageReport(ok)
  \/ FunnelRequest
  \/ \E ok \in BOOLEAN, uniqueUsers \in 0..MaxCount : FunnelSearch(ok, uniqueUsers)

SpecReports == InitReports /\ [][NextReports]_vars

\* The funnel over an index that already holds documents: any few of tenant
\* A's with two event types and two users, and one of tenant B's.
FunnelTypes == {"signup", "purchase"}

FunnelDocument(n, tenant, eventType, user) ==
  [index_name |-> << tenant, 1 >>, tenant_id |-> tenant, event_type |-> eventType,
   user_id |-> user, timestamp |-> StoreNow, src |-> << n, 1 >>]

FunnelDocuments ==
  { FunnelDocument(1, "tA", "signup", "u1"), FunnelDocument(2, "tA", "signup", "u1"),
    FunnelDocument(3, "tA", "signup", "u2"), FunnelDocument(4, "tA", "signup", Undefined),
    FunnelDocument(5, "tA", "purchase", "u1"), FunnelDocument(6, "tA", "purchase", "u3"),
    FunnelDocument(7, "tB", "purchase", "u1") }

\* req.body.events: the lists of up to MaxSteps event types
FunnelLists == UNION { [1..n -> FunnelTypes] : n \in 1..MaxSteps }

InitFunnel ==
  /\ InitPipeline
  /\ index \in SUBSET FunnelDocuments
  /\ counts = << >>
  /\ ReportsIdle
  /\ Constructor(FALSE)

NextFunnel ==
  \E apiKey \in ApiKeys, ok \in BOOLEAN, steps \in FunnelLists :
    FunnelQuery(apiKey, TRUE, ok, steps)

SpecFunnel == InitFunnel /\ [][NextFunnel]_vars

\* One SDK instance and the application that uses it; the transport may fail
\* any request.
InitSdk ==
  /\ InitServer
  /\ counts = << >>
  /\ ReportsIdle
  /\ \E enableBatching \in BOOLEAN : Constructor(enableBatching)

NextSdk ==
  \/ \E batching \in BOOLEAN : Track(batching)
  \/ \E e \in 1..MaxEvents, ok \in BOOLEAN : SendSettles(e, ok)
  \/ Flush
  \/ TimerTick
  \/ Shutdown
  \/ \E f \in inflight, ok \in BOOLEAN : FlushSettles(f, ok)

SpecSdk == InitSdk /\ [][NextSdk]_vars

\* The SDK instance left to itself: the application only tracks, and never
\* calls flush() or shutdown(). A failed request is one that can still be
\* retried within MaxFlushes, so the transport succeeds in the end. The
\* interval fires as long as it is set, and every request settles (the
\* client has a timeout).
TrackQueued ==
  /\ nFlush < MaxFlushes
  /\ Track(TRUE)

Settle ==
  \E f \in inflight, ok \in BOOLEAN :
    /\ ok \/ nFlush < MaxFlushes
    /\ FlushSettles(f, ok)

NextSdkAuto ==
  \/ TrackQueued
  \/ TimerTick
  \/ Settle

SpecSdkAuto ==
  /\ InitSdk
  /\ [][NextSdkAuto]_vars
  /\ WF_vars(TimerTick)
  /\ WF_vars(Settle)


\* ------------------------------------------------- vocabulary of the claims
Has(q, x) == \E i \in 1..Len(q) : q[i] = x
Count(q, x) == Cardinality({ i \in 1..Len(q) : q[i] = x })

\* the stream has an entry in the hub's mapping
Registered(s) == \E i \in 1..Len(sseConnections) : sseConnections[i].res = s

\* the event messages a stream has received, in order
EventsReceived(s) == SelectSeq(recv[s], LAMBDA m : m.type = "event")

\* the call that ingested an event, and the tenant it was ingested under
CallOf(id) == id[1]
EventTenant(id) == tenantId[CallOf(id)]

CommittedIds == { committed[i].id : i \in 1..Len(committed) }
CommitPos(id) == CHOOSE i \in 1..Len(committed) : committed[i].id = id

\* the events the call has inserted, and those it has broadcast
Inserted(c) == { << c, k >> : k \in 1..Count(trace[c], "INSERT") }
Broadcast(c) == { << c, k >> : k \in 1..Count(trace[c], "broadcast") }

\* a durable-store step of the call's transaction (an INSERT, the COMMIT) failed
StoreStepFailed(c) == Has(trace[c], "INSERT!") \/ Has(trace[c], "COMMIT!")
\* every durable-store step the call ran succeeded
StoreStepsSucceeded(c) ==
  \A l \in {"connect!", "BEGIN!", "INSERT!", "COMMIT!", "ROLLBACK!"} : ~Has(trace[c], l)

\* ------------------------------------------------------------------- claims

\* C1: every event message written to a streaming connection is for an event
\* ingested under the tenant the connection was registered with.
C1_TenantIsolation ==
  \A s \in Streams : \A i \in 1..Len(recv[s]) :
    recv[s][i].type = "event" => EventTenant(recv[s][i].id) = streamTenant[s]

\* C1 witness: streams of two tenants are open and an event has been broadcast
\* to the one while the other was registered
C1_Witness ==
  \E s1, s2 \in Streams :
    /\ chan[s1] = "open" /\ chan[s2] = "open"
    /\ Registered(s1) /\ Registered(s2)
    /\ streamTenant[s1] # streamTenant[s2]
    /\ Len(EventsReceived(s1)) > 0

\* C2 as claimed: in every ingestion call the COMMIT comes before the index
\* write, and the index write before every broadcast.
C2_CommitThenIndexThenBroadcast ==
  \A c \in Calls : \A i \in 1..Len(trace[c]) :
    /\ trace[c][i] = "index" => \E j \in 1..(i - 1) : trace[c][j] = "COMMIT"
    /\ trace[c][i] = "broadcast" => \E j \in 1..(i - 1) : trace[c][j] = "index"

\* C3 as claimed: a call in which an INSERT or the COMMIT failed reports failure
\* to the caller and leaves none of its events in the store.
C3_StoreFailureReportedAndAtomic ==
  \A c \in Calls :
    (pc[c] = "done" /\ StoreStepFailed(c)) =>
      /\ response[c] = << 500 >>
      /\ Inserted(c) \cap CommittedIds = {}

\* C4 as claimed: a call whose index write fails while every store step succeeds
\* reports success and has all its events stored.
C4_IndexFailureSwallowed ==
  \A c \in Calls :
    (pc[c] = "done" /\ Has(trace[c], "index!") /\ StoreStepsSucceeded(c)) =>
      /\ response[c] = << 201 >>
      /\ Inserted(c) \subseteq CommittedIds

\* C5 as claimed, in the reading that favours the code most: once the call that
\* ingested a delivered event has ended, the event is committed in the store.
C5_DeliveredEventsAreCommitted ==
  \A s \in Streams : \A i \in 1..Len(recv[s]) :
    (recv[s][i].type = "event" /\ pc[CallOf(recv[s][i].id)] = "done") =>
      recv[s][i].id \in CommittedIds

\* C6 as claimed: two committed events a connection receives are received in
\* the order of their commits.
C6_DeliveryInCommitOrder ==
  \A s \in Streams :
    LET got == EventsReceived(s) IN
    \A i, j \in 1..Len(got) :
      (i < j /\ got[i].id \in CommittedIds /\ got[j].id \in CommittedIds) =>
        CommitPos(got[i].id) < CommitPos(got[j].id)

\* C6 as amended: two events of the same ingestion call are received in the
\* order in which the call inserted them, which is their order in the store
\* once the call has committed.
C6_DeliveryInCallOrder ==
  \A s \in Streams :
    LET got == EventsReceived(s) IN
    \A i, j \in 1..Len(got) :
      (i < j /\ CallOf(got[i].id) = CallOf(got[j].id)) =>
        /\ got[i].id[2] < got[j].id[2]
        /\ (got[i].id \in CommittedIds /\ got[j].id \in CommittedIds) =>
             CommitPos(got[i].id) < CommitPos(got[j].id)

\* C6 witness: a stream has received both events of a committed batch and an
\* event of another call
C6_Witness ==
  \E s \in Streams, c, d \in Calls :
    /\ c # d
    /\ response[c] = << 201 >>
    /\ Has(recv[s], EventMessage([id |-> << c, 1 >>]))
    /\ Has(recv[s], EventMessage([id |-> << c, 2 >>]))
    /\ Has(recv[s], EventMessage([id |-> << d, 1 >>]))

\* C7: a write failure on a streaming connection during a call's broadcast does
\* not change the call's outcome: the call goes on to COMMIT, and unless the
\* COMMIT itself fails it commits its rows and answers 201.
C7_BroadcastFailureIsolated ==
  \A c \in Calls :
    fanout[c].threw # {} =>
      /\ pc[c] \in {"commit", "rollback", "done"}
      /\ pc[c] = "rollback" => Has(trace[c], "COMMIT!")
      /\ (pc[c] = "done" /\ ~Has(trace[c], "COMMIT!")) =>
           /\ response[c] = << 201 >>
           /\ Inserted(c) # {}
           /\ Inserted(c) \subseteq CommittedIds

\* C7 witness: a call in whose broadcast a write threw has answered 201
C7_Witness ==
  \E c \in Calls : fanout[c].threw # {} /\ response[c] = << 201 >>

\* C8: when a write fails on one connection during a broadcast, every other
\* connection of the tenant that is registered and writable still receives the
\* event.
C8_BroadcastSurvivesFailure ==
  \A c \in Calls :
    fanout[c].threw # {} =>
      \A s \in fanout[c].writable : \A id \in Broadcast(c) :
        Has(recv[s], EventMessage([id |-> id]))

\* C8 witness: the write to a connection registered earlier threw and a
\* connection after it in the mapping received the event
C8_Witness ==
  \E c \in Calls, f, s \in Streams :
    /\ f \in fanout[c].threw
    /\ s \in fanout[c].writable
    /\ connectionId[f] < connectionId[s]
    /\ Broadcast(c) # {}

\* C9 as claimed: a connection on which a write has failed, in broadcastEvent
\* or in the heartbeat, is no longer in the hub's mapping.
C9_FailedWriteDeregisters ==
  \A s \in writeFailed : ~Registered(s)

\* C10: for every successfully ingested event, each connection of the tenant
\* registered and writable at broadcast time has received exactly one message
\* for it; no connection ever receives an event twice.
C10_ExactlyOnceDelivery ==
  /\ \A c \in Calls :
       response[c] = << 201 >> =>
         /\ Inserted(c) # {}
         /\ \A s \in fanout[c].writable : \A id \in Inserted(c) :
              Count(recv[s], EventMessage([id |-> id])) = 1
  /\ \A s \in Streams : \A i, j \in 1..Len(recv[s]) :
       (i # j /\ recv[s][i].type = "event") => recv[s][i] # recv[s][j]

\* C10 witness: a batch of two events answered 201 and a connection was writable
\* at its broadcast
C10_Witness ==
  \E c \in Calls :
    /\ kind[c] = "batch"
    /\ response[c] = << 201 >>
    /\ Cardinality(Inserted(c)) = 2
    /\ fanout[c].writable # {}

\* all events broadcast so far, by any call
BroadcastSoFar == UNION { Broadcast(c) : c \in Calls }

\* C11: a step writes an event message to a connection only if the step is the
\* broadcast of that event and the connection is registered and open when it
\* happens; in particular opening a stream delivers no earlier event.
C11_NoReplay ==
  [][\A s \in Streams :
       LET before == IF chan[s] = "none" THEN << >> ELSE recv[s] IN
       \A i \in 1..Len(recv'[s]) :
         (i > Len(before) /\ recv'[s][i].type = "event") =>
           /\ Registered(s) /\ chan[s] = "open"
           /\ recv'[s][i].id \in BroadcastSoFar' \ BroadcastSoFar]_vars

\* C11 witness: an open stream has received an event of one call while an
\* earlier committed event of its tenant, broadcast before it opened, is absent
C11_Witness ==
  \E s \in Streams, c, d \in Calls :
    /\ c # d /\ chan[s] = "open"
    /\ tenantId[c] = streamTenant[s] /\ tenantId[d] = streamTenant[s]
    /\ << c, 1 >> \in CommittedIds
    /\ ~Has(recv[s], EventMessage([id |-> << c, 1 >>]))
    /\ Has(recv[s], EventMessage([id |-> << d, 1 >>]))

\* C12: a stream that the client closed or that reported an error has no entry
\* in the hub's mapping, and no later step writes a message to it.
C12_ClosedStreamRemoved ==
  /\ [](\A s \in Streams : chan[s] = "closed" => ~Registered(s))
  /\ [][\A s \in Streams : chan[s] = "closed" => recv'[s] = recv[s]]_vars

\* C12 witness: a stream that received events is closed while a call of its
\* tenant has inserted its rows and is about to broadcast
C12_Witness ==
  \E s \in Streams, c \in Calls :
    /\ chan[s] = "closed"
    /\ Len(EventsReceived(s)) > 0
    /\ tenantId[c] = streamTenant[s]
    /\ pc[c] = "index"

\* C13: the first message on every opened stream is the connection-confirmed
\* message: a stream that has been opened has it at the head of what it
\* received, ahead of every event message and every liveness pulse.
C13_ConnectedFirst ==
  \A s \in Streams :
    chan[s] \in {"open", "broken", "closed"} =>
      /\ Len(recv[s]) >= 1
      /\ recv[s][1] = ConnectedMessage
      /\ \A i \in 2..Len(recv[s]) : recv[s][i].type \in {"event", "heartbeat"}

\* C13 witness: a stream has received an event message and a liveness pulse
C13_Witness ==
  \E s \in Streams :
    /\ Has(recv[s], HeartbeatMessage)
    /\ Len(EventsReceived(s)) > 0

\* C14: a request whose credential is absent or matches no tenant is rejected by
\* authenticateTenant (401; 500 when the tenants lookup itself failed) and the
\* endpoint never runs: no store client is taken, no row inserted or committed,
\* no index document written, nothing broadcast and no stream registered.
C14_UnauthenticatedRejected ==
  /\ \A c \in Calls :
       credential[c] \in NoKeys =>
         /\ pc[c] = "done"
         /\ response[c] \in { << 401 >>, << 500 >> }
         /\ credential[c] = "" => response[c] = << 401 >>
         /\ trace[c] = << "respond" >>
         /\ client[c] = "none" /\ rows[c] = << >>
         /\ \A r \in Range(committed) : CallOf(r.id) # c
         /\ \A d \in index : CallOf(d.src) # c
         /\ fanout[c] = [writable |-> {}, threw |-> {}]
  /\ \A s \in Streams :
       streamCredential[s] \in NoKeys =>
         /\ chan[s] = "rejected"
         /\ ~Registered(s) /\ ~heartbeat[s] /\ recv[s] = << >>

\* C14 witness: a call with a key matching no tenant was answered 401 and a
\* stream request without a key was rejected, while another stream is open
C14_Witness ==
  /\ \E c \in Calls : credential[c] = "bad-key" /\ response[c] = << 401 >>
  /\ \E s \in Streams : streamCredential[s] = "" /\ chan[s] = "rejected"
  /\ \E s \in Streams : chan[s] = "open"

\* the tenant the call's credential resolves to
CredentialTenant(c) == TenantLookup(credential[c])

\* C15: the tenant of every row inserted or committed, of every index document
\* and of every recipient of a broadcast is the tenant resolved from the
\* credential of the call that ingested the event, whatever tenantId the body
\* names; an event id is stored once, and no step changes a committed row or an
\* index document.
C15_TenantFromCredential ==
  /\ [](/\ \A c \in Calls : \A r \in Range(rows[c]) : CredentialTenant(c) = {r.tenant_id}
        /\ \A r \in Range(committed) : CredentialTenant(CallOf(r.id)) = {r.tenant_id}
        /\ \A d \in index : CredentialTenant(CallOf(d.src)) = {d.tenant_id}
        /\ \A s \in Streams : \A m \in Range(EventsReceived(s)) :
             CredentialTenant(CallOf(m.id)) = {streamTenant[s]}
        /\ \A i, j \in 1..Len(committed) : committed[i].id = committed[j].id => i = j)
  /\ [][/\ \A i \in 1..Len(committed) : i <= Len(committed') /\ committed'[i] = committed[i]
        /\ index \subseteq index']_vars

\* C15 witness: a call whose body names the other tenant has inserted its row,
\* written the index document and broadcast the event to a stream
C15_Witness ==
  \E c \in Calls, s \in Streams :
    /\ kind[c] = "track" /\ pc[c] = "commit"
    /\ body[c].tenantId \in Tenants \ {tenantId[c]}
    /\ Has(recv[s], EventMessage(rows[c][1]))
    /\ \E d \in index : d.src = rows[c][1].id

\* the call has had an effect: a row inserted or committed, an index document
\* written, or an event broadcast
HasEffect(c) ==
  \/ Inserted(c) # {} \/ rows[c] # << >>
  \/ \E r \in Range(committed) : CallOf(r.id) = c
  \/ \E d \in index : CallOf(d.src) = c
  \/ Broadcast(c) # {}

\* C16 as claimed: a /track call whose event type is missing or empty is
\* answered 400 and has no effect, and no event with a missing or empty type is
\* ever committed or indexed by a /track/batch call.
C16_InvalidEventRejected ==
  /\ \A c \in Calls :
       (kind[c] = "track" /\ body[c] # NoBody /\ Falsy(body[c].event)) =>
         (response[c] = << 400 >> /\ ~HasEffect(c))
  /\ \A r \in Range(committed) : ~Falsy(r.event_type)
  /\ \A d \in index : ~Falsy(d.event_type)

\* C17: a /track/batch call whose events value is not a list or is an empty
\* list is answered 400 and nothing else happens: no store client is taken, no
\* transaction is opened, nothing is inserted, indexed or broadcast.
C17_BatchInputRejected ==
  \A c \in Calls :
    (kind[c] = "batch" /\ body[c] # NoBody /\ (~body[c].isArray \/ body[c].length = 0)) =>
      /\ pc[c] = "done"
      /\ response[c] = << 400 >>
      /\ trace[c] = << "respond" >>
      /\ client[c] = "none"
      /\ ~HasEffect(c)

\* C17 witness: one batch call carried a value that is not a list, another an
\* empty list, and both were answered
C17_Witness ==
  \E c, d \in Calls :
    /\ kind[c] = "batch" /\ body[c] # NoBody /\ ~body[c].isArray
    /\ kind[d] = "batch" /\ body[d] # NoBody /\ body[d].isArray /\ body[d].length = 0
    /\ pc[c] = "done" /\ pc[d] = "done"

\* C18 as claimed: the timestamp of the row a /track call inserts (the one it
\* also indexes, broadcasts and returns) is the timestamp the body supplies,
\* and the store's clock value only when the body supplies none.
C18_CallerTimestampWins ==
  \A c \in Calls :
    (kind[c] = "track" /\ body[c] # NoBody /\ rows[c] # << >>) =>
      rows[c][1].timestamp =
        IF body[c].timestamp # Undefined THEN body[c].timestamp ELSE StoreNow

\* C19 as claimed: when GET /events is asked, with the search cluster up, for
\* the type and user of a single event its tenant ingested successfully before,
\* the answer holds exactly one document for that event, with the event's type
\* and user, whatever the day of the request.
C19_SearchFindsIngested ==
  (result.op = "events" /\ result.cluster) =>
    \A r \in result.ingested :
      (result.query.eventType = r.event_type /\ result.query.userId = r.user_id) =>
        /\ result.status = 200
        /\ Cardinality({ d \in result.payload.events : d.src = r.id }) = 1
        /\ \A d \in result.payload.events :
             d.src = r.id => (d.event_type = r.event_type /\ d.user_id = r.user_id)

\* the tenant's own documents
OwnDocs(tenant) == { d \in index : d.tenant_id = tenant }

\* C20: every query is scoped to the resolved tenant: on the whole index each
\* query operation gives what it gives on the tenant's own documents alone,
\* and every answer a query route sends is the one computed from the tenant's
\* own documents.
C20_QueriesTenantScoped ==
  /\ [](\A t \in Tenants :
         /\ SearchRejects(t, index) = SearchRejects(t, OwnDocs(t))
         /\ \A q \in EventFilters : SearchEvents(t, q, index) = SearchEvents(t, q, OwnDocs(t))
         /\ GetAnalytics(t, index) = GetAnalytics(t, OwnDocs(t))
         /\ GetUsage(t, index) = GetUsage(t, OwnDocs(t))
         /\ \A steps \in FunnelSteps :
              GetFunnelAnalysis(t, steps, index) = GetFunnelAnalysis(t, steps, OwnDocs(t)))
  /\ [][(result' # result /\ result'.status = 200) =>
          result'.payload =
            PayloadOf(result'.op, result'.tenantId, result'.query, OwnDocs(result'.tenantId))]_vars

\* C20 witness: a search was answered with documents while the other tenant has
\* documents of the same day in the index
C20_Witness ==
  /\ result.op = "events" /\ result.status = 200
  /\ result.payload.events # {}
  /\ \E d \in index : d.tenant_id # result.tenantId /\ d.index_name[2] = today

\* ----------------------------------------------------------- report claims
\* C21 A query whose index call fails is answered with an error and nothing
\* else: a funnel answered 500 carries no step result, whatever the number of
\* steps searched before the failing one, a usage report answered 500 carries
\* no growth rate, and a funnel answered 200 has had every step searched.
C21_FailedQueryHasNoPartialResult ==
  /\ reply.op = "funnel" /\ reply.status = 500 => reply.funnel = << >>
  /\ reply.op = "funnel" /\ reply.status = 200 =>
       /\ reply.searched = Len(counts)
       /\ Len(reply.funnel) = Len(counts)
  /\ reply.op = "usage" /\ reply.status = 500 => "growth_rate" \notin DOMAIN reply

\* a funnel failed at its second or a later step
C21_Witness ==
  /\ reply.op = "funnel"
  /\ reply.status = 500
  /\ reply.searched >= 1

\* the sums of the two halves of the histogram the usage report was made from
FirstHalfSum == Sum(SubSeq(counts, 1, Len(counts) \div 2))
SecondHalfSum == Sum(SubSeq(counts, Len(counts) \div 2 + 1, Len(counts)))

\* C22 (as stated) The growth rate of a usage report is the number 0 when the
\* first half of the series sums to 0, and otherwise exactly the percentage
\* change 100 * (second - first) / first.
C22_GrowthRateExact ==
  reply.op = "usage" /\ reply.status = 200 =>
    /\ reply.growth_rate.type = "number"
    /\ IF FirstHalfSum = 0
       THEN reply.growth_rate.num = 0
       ELSE reply.growth_rate.num * FirstHalfSum
              = (SecondHalfSum - FirstHalfSum) * 100 * reply.growth_rate.den

\* C22 (amended) The growth rate of a usage report is the number 0 when the
\* first half of the series sums to 0 (the empty and the one-bucket series
\* included), and otherwise the percentage change rounded to one decimal: a
\* number of tenths no further than half a tenth from the exact quotient.
C22_GrowthRateRounded ==
  reply.op = "usage" /\ reply.status = 200 =>
    /\ reply.growth_rate.type = "number"
    /\ IF FirstHalfSum = 0
       THEN reply.growth_rate.num = 0
       ELSE LET off == reply.growth_rate.num * FirstHalfSum
                         - (SecondHalfSum - FirstHalfSum) * 1000
            IN /\ reply.growth_rate.den = 10
               /\ 2 * off <= FirstHalfSum
               /\ 2 * off >= -FirstHalfSum

\* a usage report over a series whose percentage change has more than one decimal
C22_Witness ==
  /\ reply.op = "usage"
  /\ reply.status = 200
  /\ FirstHalfSum > 0
  /\ reply.growth_rate.num * FirstHalfSum # (SecondHalfSum - FirstHalfSum) * 1000

\* C23 Every step of a funnel report carries as conversion rate the number
\* 100 * count[i] / count[0] (where the first count is not 0, so that the
\* quotient exists), and the first step the number 100.
C23_ConversionRateIsQuotient ==
  reply.op = "funnel" /\ reply.status = 200 /\ reply.funnel[1].count > 0 =>
    /\ reply.funnel[1].conversion_rate = Number(100)
    /\ \A i \in 1..Len(reply.funnel) :
         LET rate == reply.funnel[i].conversion_rate IN
         /\ rate.type = "number"
         /\ rate.num * reply.funnel[1].count = 100 * reply.funnel[i].count * rate.den

\* ------------------------------------------------------------- SDK claims
\* C24 A flush() that fails at the transport puts the events it took back at
\* the front of the queue, in their order: with nothing tracked meanwhile the
\* queue is again exactly what flush() took, and with events tracked
\* meanwhile those follow. The error is surfaced to the caller of flush().
C24_FailedFlushRestoresQueue ==
  [][\A f \in inflight :
       FlushSettles(f, FALSE) =>
         /\ eventQueue' = f.events \o eventQueue
         /\ eventQueue = << >> => eventQueue' = f.events
         /\ f.origin = "flush" => Ended("flush", f.id, "error", 0) \in returned']_vars

\* a flush() of several events called by the application has failed, and the
\* queue holds them again
C24_Witness ==
  \E r \in returned :
    /\ r.call = "flush"
    /\ r.kind = "error"
    /\ inflight = {}
    /\ Len(eventQueue) >= 2
    /\ eventQueue = [i \in 1..Len(eventQueue) |-> i]

\* the events accepted by a batching track()
Batched == (1..nTracked) \ direct

\* the number of times an event occurs in the pending queue
TimesQueued(e) == Cardinality({ i \in 1..Len(eventQueue) : eventQueue[i] = e })

\* the batches of a set of requests that hold an event
Holding(e, batches) == { f \in batches : \E i \in 1..Len(f.events) : f.events[i] = e }

\* C25 Every event accepted by a batching track() is in exactly one place: once
\* in the pending queue, or in one batch in flight, or in one acknowledged
\* batch; an event tracked with batching disabled is in none of them.
C25_EventInExactlyOnePlace ==
  /\ \A e \in Batched :
       TimesQueued(e) + Cardinality(Holding(e, inflight)) + Cardinality(Holding(e, acked)) = 1
  /\ \A e \in direct :
       TimesQueued(e) + Cardinality(Holding(e, inflight)) + Cardinality(Holding(e, acked)) = 0

\* after shutdown, with a failed flush behind, events are in all three places
C25_Witness ==
  /\ stopped
  /\ \E r \in returned : r.kind \in {"error", "warned"}
  /\ \E e \in Batched : TimesQueued(e) = 1
  /\ \E e \in Batched : Holding(e, inflight) # {}
  /\ \E e \in Batched : Holding(e, acked) # {}

\* C26 Every batching track() call that has finished returned the queued
\* acknowledgment {queued: true, queueSize}, never an error or a server
\* acknowledgment.
C26_BatchingTrackReturnsQueued ==
  \A r \in returned : r.call = "track" /\ r.of \in Batched => r.kind = "queued"

\* C27 A track() with batching disabled sends its event alone and at once,
\* leaves the pending queue as it is, both when called and when its request
\* settles, starts no flush, and ends with the server acknowledgment when the
\* request succeeds (with the transport error otherwise).
C27_UnbatchedTrackBypassesQueue ==
  /\ [][Track(FALSE) =>
          /\ singles' = singles \cup {nTracked + 1}
          /\ eventQueue' = eventQueue
          /\ inflight' = inflight]_vars
  /\ [][\A e \in 1..MaxEvents, ok \in BOOLEAN :
          SendSettles(e, ok) =>
            /\ eventQueue' = eventQueue
            /\ inflight' = inflight
            /\ Ended("track", e, IF ok THEN "ack" ELSE "error", 0) \in returned']_vars
  /\ [](\A r \in returned : r.call = "track" /\ r.kind = "ack" => r.of \in direct)

\* an unbatched track() has returned the server acknowledgment while events
\* were pending
C27_Witness ==
  /\ eventQueue # << >>
  /\ \E r \in returned : r.call = "track" /\ r.kind = "ack" /\ r.of \in direct

\* C28 A tick of the flush interval with an empty queue sends nothing and
\* counts as no flush; a flush started by a tick never ends in an error (its
\* failure is caught and logged); and nothing but shutdown() stops the
\* interval: in particular it is still running after such a failure.
C28_TimerSurvivesFailure ==
  /\ [][TimerTick /\ eventQueue = << >> =>
          /\ inflight' = inflight
          /\ nFlush' = nFlush]_vars
  /\ [](\A r \in returned : r.call = "timer" => r.kind \in {"done", "warned"})
  /\ [][\A f \in inflight :
          FlushSettles(f, FALSE) /\ f.origin = "timer" =>
            /\ batchTimer' = batchTimer
            /\ TimerCatches(f.id) \in returned']_vars
  /\ [][batchTimer /\ ~batchTimer' => ~stopped /\ stopped']_vars

\* after a failed automatic flush the interval has fired again and flushed
C28_Witness ==
  /\ batchTimer
  /\ \E r \in returned :
       /\ r.call = "timer"
       /\ r.kind = "warned"
       /\ \E f \in inflight \cup acked : f.origin = "timer" /\ f.id > r.of

\* the batch requests a step starts
Started == inflight' \ inflight

\* C29 shutdown() clears the interval, and once it has been called no flush is
\* started by the interval any more. Called on a non-empty queue it starts
\* exactly one request, which carries the whole queue as one batch, and it
\* has not returned while that request is in flight; called on an empty queue
\* it returns without a request.
C29_ShutdownStopsTimerAndFlushes ==
  /\ [](stopped => ~batchTimer)
  /\ [][stopped => \A f \in Started : f.origin # "timer"]_vars
  /\ [][Shutdown =>
          /\ ~batchTimer'
          /\ IF eventQueue # << >>
             THEN /\ Started = {Post("shutdown", 0, eventQueue)}
                  /\ eventQueue' = << >>
                  /\ returned' = returned
             ELSE /\ Started = {}
                  /\ Ended("shutdown", 0, "done", 0) \in returned']_vars
  /\ [](\A r \in returned :
          r.call = "shutdown" => \A f \in inflight : f.origin # "shutdown")

\* shutdown() has returned after a final flush of several events, on an
\* instance whose interval was running with automatic flushes before
C29_Witness ==
  /\ stopped
  /\ Ended("shutdown", 0, "done", 0) \in returned
  /\ \E f \in acked : f.origin = "shutdown" /\ Len(f.events) >= 2
  /\ \E f \in acked \cup inflight : f.origin = "timer"

\* C30 The pending queue always lists events in the order they were tracked.
C30_QueueInTrackOrder ==
  \A i, j \in 1..Len(eventQueue) : i < j => eventQueue[i] < eventQueue[j]

\* --------------------------------------------------------- further claims
\* the streams a failed write of some broadcast has taken out of the mapping
ThrewInBroadcast == UNION { fanout[c].threw : c \in Calls }

\* C31 A stream that was deregistered, by its close or error handler or by a
\* failed write of a broadcast, and is not in the hub's mapping has no
\* running heartbeat interval.
C31_DeregisteredHasNoHeartbeat ==
  \A s \in Streams :
    /\ chan[s] = "closed" \/ s \in ThrewInBroadcast
    /\ ~Registered(s)
    => ~heartbeat[s]

\* what a funnel reports for a step, its position and rate left out
Triple(step) == << step.event, step.count, step.unique_users >>

\* the permutations of 1..n
Perms(n) == { p \in [1..n -> 1..n] : \A i, j \in 1..n : p[i] = p[j] => i = j }

\* C32 Each step of a funnel is evaluated on its own: the event, count and
\* unique users reported for a step are those of a one-step funnel over the
\* tenant's documents of that event type alone, so permuting the list
\* permutes the triples, and the funnel a request is answered is this one.
C32_FunnelStepsIndependent ==
  /\ \A t \in Tenants, steps \in FunnelLists :
       LET r == GetFunnelAnalysis(t, steps, index) IN
       /\ \A i \in 1..Len(steps) :
            Triple(r[i]) =
              Triple(GetFunnelAnalysis(t, << steps[i] >>,
                       { d \in index : d.tenant_id = t /\ d.event_type = steps[i] })[1])
       /\ \A p \in Perms(Len(steps)) :
            LET permuted == GetFunnelAnalysis(t, [i \in 1..Len(steps) |-> steps[p[i]]], index)
            IN \A i \in 1..Len(steps) : Triple(permuted[i]) = Triple(r[p[i]])
  /\ result.op = "funnel" /\ result.status = 200 =>
       result.payload = GetFunnelAnalysis(result.tenantId, result.query, index)

\* a funnel over two event types was answered where a purchase came from a
\* user without a signup and a signup from a user without a purchase
C32_Witness ==
  /\ result.op = "funnel" /\ result.status = 200
  /\ result.query = << "signup", "purchase" >>
  /\ result.payload[1].count = 3
  /\ result.payload[2].count = 2
  /\ result.payload[2].unique_users = 2

\* C33 Once the call that wrote it has ended, every document of the
\* Aggregation Index mirrors an event that is committed in the store.
C33_IndexedEventsAreCommitted ==
  \A d \in index : pc[CallOf(d.src)] = "done" => d.src \in CommittedIds

\* C34 Every ingestion request whose handler has ended has been sent exactly
\* one response.
C34_OneResponsePerRequest ==
  \A c \in Calls : pc[c] = "done" => Len(response[c]) = 1

\* C35 Every store client an ingestion call acquired from the pool has been
\* released, once, when the call has ended: a call that connected ran release
\* exactly once and holds no client, and a call that did not connect ran none.
C35_ClientReleasedOnce ==
  \A c \in Calls :
    /\ Count(trace[c], "release") <= 1
    /\ Count(trace[c], "release") = 1 => Has(trace[c], "connect")
    /\ pc[c] = "done" =>
         /\ client[c] # "held"
         /\ Has(trace[c], "connect") <=> Count(trace[c], "release") = 1
         /\ Has(trace[c], "connect") <=> client[c] = "released"

\* two calls have ended with their clients released, one by a COMMIT and one
\* after a ROLLBACK that failed
C35_Witness ==
  \E c, d \in Calls :
    /\ pc[c] = "done" /\ pc[d] = "done"
    /\ Has(trace[c], "COMMIT") /\ client[c] = "released"
    /\ Has(trace[d], "ROLLBACK!") /\ client[d] = "released"

\* the positions at which a stream received events of a call
PositionsOf(s, c) ==
  { i \in 1..Len(EventsReceived(s)) : EventsReceived(s)[i].id[1] = c }

\* C36 The events of a batch reach a subscriber in the order of the input
\* list and with nothing between them: a stream that was writable at the
\* batch's broadcast has received all n events, and on every stream the
\* events of the batch stand at consecutive positions, the k-th event at the
\* k-th of them.
C36_BatchDeliveredInOrderContiguously ==
  \A c \in Calls :
    kind[c] = "batch" =>
      \A s \in Streams :
        LET got == EventsReceived(s)
            at == PositionsOf(s, c)
            n == Count(trace[c], "broadcast")
        IN /\ s \in fanout[c].writable => Cardinality(at) = n
           /\ at # {} =>
                LET first == CHOOSE i \in at : \A j \in at : i <= j IN
                /\ at = first..(first + Cardinality(at) - 1)
                /\ \A i \in at : got[i].id = << c, i - first + 1 >>

\* a stream has received the two events of a batch after the event of another
\* call of the same tenant that was still awaiting its COMMIT
C36_Witness ==
  \E c, d \in Calls, s \in Streams :
    /\ c # d
    /\ kind[c] = "batch" /\ Cardinality(PositionsOf(s, c)) = 2
    /\ tenantId[d] = tenantId[c]
    /\ pc[d] = "commit"
    /\ PositionsOf(s, d) # {}

\* C37 When shutdown() has returned without error, track() has not been
\* called since shutdown() was, and no request is in flight, no event is
\* pending in the queue.
C37_NothingPendingAfterShutdown ==
  /\ Ended("shutdown", 0, "done", 0) \in returned
  /\ nTracked = stoppedAt
  /\ inflight = {}
  => eventQueue = << >>

\* C38 Every event in the pending queue is eventually in a batch the server
\* acknowledged, with the application calling neither flush() nor shutdown().
C38_QueuedEventuallySent ==
  \A e \in 1..MaxEvents : TimesQueued(e) > 0 ~> Holding(e, acked) # {}

\* what does hold of the automatic path: on an instance whose interval is
\* running, every queued event is eventually acknowledged
QueuedEventuallySentWithInterval ==
  \A e \in 1..MaxEvents : (batchTimer /\ TimesQueued(e) > 0) ~> Holding(e, acked) # {}

====
